---- MODULE Spec2Model ----
(* Live session orchestrator of the voice-tutoring client                  *)
(* (src/components/SessionUI.tsx, src/components/Whiteboard.tsx).          *)
(*                                                                         *)
(* Every handler of the component is a function from the component's state *)
(* (a record with one field per ref / React state) to the state it leaves, *)
(* so that a handler that calls another one (connectToLiveAPI calling      *)
(* stopEverything, the transport callbacks calling handleDisconnect) is    *)
(* the composition the code executes.  An action of the state machine is   *)
(* one macrotask of the event loop: a callback of the transport, a timer,  *)
(* a click, the continuation of an await.                                  *)
EXTENDS Integers, Sequences, FiniteSets, TLC

VARIABLES
  phase,                \* "created" | "mounted" | "ended" (component life)
  status,               \* useState<ConnectionStatus>
  isConnectingRef,      \* useRef(false)
  isConnectedRef,       \* useRef(false)
  reconnectAttemptsRef, \* useRef(0)
  reconnectTimeoutRef,  \* useRef<number|null>: 0 is null, else a timer id
  timers,               \* pending window.setTimeout callbacks: {[id, delay]}
  timerSeq,             \* number of timers created so far (ids are 1..timerSeq)
  sessionRef,           \* useRef<any>: 0 is null, else the id of a connection
  streamRef,            \* useRef<MediaStream|null>: TRUE when a stream is held
  audioContextsRef,     \* useRef<...|null>: TRUE once the contexts exist
  conns,                \* every connectToLiveAPI attempt that passed its guard
  handlers,             \* connections whose onaudioprocess handler is installed
  activations,          \* activateAudioAndGreet calls suspended at their await
  clicks,               \* START LESSON clicks so far
  greetings,            \* greeting turns sent: <<[conn, live]>>
  lastFrame,            \* the latest frame a capture callback sent
  failedOpens,          \* consecutive open attempts that failed since attemptCount was 0
  viewMode,             \* useState<'canvas'|'materials'|'visualizer'>
  currentMaterial,      \* useState<LearningMaterial|null>: <<>> is null, else <<m>>
  materialBy,           \* id of the call that showed currentMaterial (history only)
  hasNewMaterial,       \* useState(false)
  imageReqs,            \* generateImageForMaterial calls awaiting generateContent
  received,             \* function calls received so far; a call's id is its index
  acks,                 \* sendToolResponse calls so far: <<[id, conn]>>
  drawLog,              \* draw effects on the canvas so far: <<[id, action]>>
  transcriptTextRef,    \* useRef({user: '', model: ''})
  transcriptState,      \* useState({user: '', model: ''})
  messages,             \* useState<ChatMessage[]>([])
  now,                  \* Date.now()
  heard,                \* fragments sent since the last turn boundary (history only)
  lastTurn,             \* the latest turn boundary handled (history only)
  textIn,               \* a string handed to formatAIText
  textOut,              \* what formatAIText returned for it: <<>> not called yet, else <<r>>
  currentTime,          \* audioContextsRef.current.output.currentTime
  nextStartTimeRef,     \* useRef(0)
  isSpeaking,           \* useState(false)
  sources,              \* buffer sources created so far: <<[start, begin, dur, st, no]>>
  activeSourcesRef,     \* useRef(new Set()): indices into sources
  decodes               \* onmessage calls suspended at await decodeAudioData:
                        \* <<[chunk, interrupted, stale, no]>>

vars == <<phase, status, isConnectingRef, isConnectedRef, reconnectAttemptsRef,
          reconnectTimeoutRef, timers, timerSeq, sessionRef, streamRef,
          audioContextsRef, conns, handlers, activations, clicks, greetings,
          lastFrame, failedOpens, viewMode, currentMaterial, materialBy,
          hasNewMaterial, imageReqs, received, acks, drawLog, transcriptTextRef,
          transcriptState, messages, now,
          heard,
          lastTurn,
          textIn, textOut,
          currentTime,
          nextStartTimeRef,
          isSpeaking,
          sources,
          activeSourcesRef,
          decodes>>

----------------------------------------------------------------------------
(* Bounds of the model *)

\* connectToLiveAPI attempts that pass the isConnectingRef guard
MaxConn == 4
\* the same, where only the transport and the timers act (SpecBackoff)
MaxBackoffConn == 5
\* the same, where transcription events arrive (SpecTranscript)
MaxTranscriptConn == 2
\* function calls received in a session
MaxCalls == 2
\* characters held by one transcript accumulator
MaxText == 1
\* records of the transcript log
MaxLog == 2
\* the value Date.now() reaches
MaxClock == 1
\* the same, where a manual retry follows the exhausted reconnection (SpecRetry)
MaxRetryConn == 5
\* START LESSON clicks
MaxClicks == 1
\* characters of a string handed to formatAIText (SpecText)
MaxLen == 7
\* audio chunks received in a session
MaxSources == 3
\* the value the playback clock reaches
MaxTime == 1

(* Constants of the program *)

\* handleDisconnect: if (reconnectAttemptsRef.current < 5)
MaxReconnectAttempts == 5

ConnectionStatus ==
  {"connecting", "connected", "reconnecting", "disconnected", "error", "ready_to_start"}

\* Math.pow(2, n)
RECURSIVE Pow2(_)
Pow2(n) == IF n = 0 THEN 1 ELSE 2 * Pow2(n - 1)

----------------------------------------------------------------------------
(* The component's state as one record, and its write-back *)

Cur ==
  [phase |-> phase, status |-> status, isConnectingRef |-> isConnectingRef,
   isConnectedRef |-> isConnectedRef, reconnectAttemptsRef |-> reconnectAttemptsRef,
   reconnectTimeoutRef |-> reconnectTimeoutRef, timers |-> timers,
   timerSeq |-> timerSeq, sessionRef |-> sessionRef, streamRef |-> streamRef,
   audioContextsRef |-> audioContextsRef, conns |-> conns, handlers |-> handlers,
   activations |-> activations, clicks |-> clicks, greetings |-> greetings,
   lastFrame |-> lastFrame, failedOpens |-> failedOpens, viewMode |-> viewMode,
   currentMaterial |-> currentMaterial, materialBy |-> materialBy,
   hasNewMaterial |-> hasNewMaterial, imageReqs |-> imageReqs,
   received |-> received, acks |-> acks, drawLog |-> drawLog,
   transcriptTextRef |-> transcriptTextRef, transcriptState |-> transcriptState,
   messages |-> messages, now |-> now,
   heard |-> heard,
   lastTurn |-> lastTurn,
   textIn |-> textIn, textOut |-> textOut,
   currentTime |-> currentTime,
   nextStartTimeRef |-> nextStartTimeRef,
   isSpeaking |-> isSpeaking,
   sources |-> sources,
   activeSourcesRef |-> activeSourcesRef,
   decodes |-> decodes]

Commit(s) ==
  /\ phase' = s.phase
  /\ status' = s.status
  /\ isConnectingRef' = s.isConnectingRef
  /\ isConnectedRef' = s.isConnectedRef
  /\ reconnectAttemptsRef' = s.reconnectAttemptsRef
  /\ reconnectTimeoutRef' = s.reconnectTimeoutRef
  /\ timers' = s.timers
  /\ timerSeq' = s.timerSeq
  /\ sessionRef' = s.sessionRef
  /\ streamRef' = s.streamRef
  /\ audioContextsRef' = s.audioContextsRef
  /\ conns' = s.conns
  /\ handlers' = s.handlers
  /\ activations' = s.activations
  /\ clicks' = s.clicks
  /\ greetings' = s.greetings
  /\ lastFrame' = s.lastFrame
  /\ failedOpens' = s.failedOpens
  /\ viewMode' = s.viewMode
  /\ currentMaterial' = s.currentMaterial
  /\ materialBy' = s.materialBy
  /\ hasNewMaterial' = s.hasNewMaterial
  /\ imageReqs' = s.imageReqs
  /\ received' = s.received
  /\ acks' = s.acks
  /\ drawLog' = s.drawLog
  /\ transcriptTextRef' = s.transcriptTextRef
  /\ transcriptState' = s.transcriptState
  /\ messages' = s.messages
  /\ now' = s.now
  /\ heard' = s.heard
  /\ lastTurn' = s.lastTurn
  /\ textIn' = s.textIn
  /\ textOut' = s.textOut
  /\ currentTime' = s.currentTime
  /\ nextStartTimeRef' = s.nextStartTimeRef
  /\ isSpeaking' = s.isSpeaking
  /\ sources' = s.sources
  /\ activeSourcesRef' = s.activeSourcesRef
  /\ decodes' = s.decodes

----------------------------------------------------------------------------
(* React state setters: an update of an unmounted component is dropped *)

setStatus(s, v) == IF s.phase = "mounted" THEN [s EXCEPT !.status = v] ELSE s

(* The transport: a connection is                                          *)
(*   "gum"        connectToLiveAPI is suspended at await getUserMedia      *)
(*   "dead"       getUserMedia rejected, no socket was made                *)
(*   "connecting" ai.live.connect called, socket not open yet              *)
(*   "open"       onopen delivered                                         *)
(*   "closing"    close() called locally, onclose not delivered yet        *)
(*   "failing"    onerror delivered, onclose not delivered yet             *)
(*   "closed"     onclose delivered                                        *)
(* rec is the isReconnect argument its callbacks close over, opened says   *)
(* whether onopen was ever delivered.  A connection that is dead or closed *)
(* runs no callback any more, so the two are dropped (FALSE) with it.      *)

NewConn(st, rec) == [st |-> st, rec |-> rec, opened |-> FALSE]

\* the socket of connection c ends in state st ("failing", "closed", "dead")
endConn(s, c, st) ==
  IF st = "failing" THEN [s EXCEPT !.conns[c].st = st]
  ELSE [s EXCEPT !.conns[c] = NewConn(st, FALSE)]

\* session.close(): closing an open socket makes it deliver onclose later;
\* on a socket already closing or closed it does nothing
sessionClose(s, c) ==
  IF s.conns[c].st = "open" THEN [s EXCEPT !.conns[c].st = "closing"] ELSE s

----------------------------------------------------------------------------
(* Handlers of SessionUI *)

setIsSpeaking(s, v) == IF s.phase = "mounted" THEN [s EXCEPT !.isSpeaking = v] ELSE s

\* AudioBufferSourceNode.stop() on every source of the set: a source that is
\* playing stops, and its ended event becomes due
stopAll(s, set) ==
  [s EXCEPT !.sources =
     [k \in 1 .. Len(s.sources) |->
        IF k \in set /\ s.sources[k].st = "playing"
        THEN [s.sources[k] EXCEPT !.st = "stopped"] ELSE s.sources[k]]]

\* cleanupAudio without the reset of nextStartTimeRef
cleanupAudioKeepingOffset(s) ==
  setIsSpeaking([stopAll(s, s.activeSourcesRef) EXCEPT !.activeSourcesRef = {}], FALSE)

cleanupAudio(s) ==
  LET a == stopAll(s, s.activeSourcesRef)
      b == [a EXCEPT !.activeSourcesRef = {}, !.nextStartTimeRef = 0]
  IN  setIsSpeaking(b, FALSE)

\* the steps stopEverything takes from state s, in the order it takes them
stopEverythingSteps(s) ==
     <<"interrupt">>
  \o (IF s.reconnectTimeoutRef # 0 THEN <<"timer">> ELSE <<>>)
  \o (IF s.sessionRef # 0 THEN <<"transport">> ELSE <<>>)
  \o (IF s.streamRef THEN <<"capture">> ELSE <<>>)

stopEverything(s) ==
  LET a == cleanupAudio(s)
      b == [a EXCEPT !.isConnectedRef = FALSE, !.isConnectingRef = FALSE]
      c == IF b.reconnectTimeoutRef # 0
           THEN [b EXCEPT !.timers = {t \in @ : t.id # b.reconnectTimeoutRef},
                          !.reconnectTimeoutRef = 0]
           ELSE b
      d == IF c.sessionRef # 0
           THEN [sessionClose(c, c.sessionRef) EXCEPT !.sessionRef = 0]
           ELSE c
  IN  [d EXCEPT !.streamRef = FALSE]

\* handleDisconnect with the ceiling test written <= instead of <
handleDisconnectInclusive(s) ==
  LET a == [s EXCEPT !.isConnectedRef = FALSE, !.isConnectingRef = FALSE]
  IN  IF a.reconnectAttemptsRef <= MaxReconnectAttempts
      THEN LET delay == Pow2(a.reconnectAttemptsRef)
               b == [a EXCEPT !.reconnectAttemptsRef = @ + 1]
               c == setStatus(b, "reconnecting")
               id == c.timerSeq + 1
           IN  [c EXCEPT !.timerSeq = id,
                         !.timers = @ \cup {[id |-> id, delay |-> delay]},
                         !.reconnectTimeoutRef = id]
      ELSE setStatus(a, "error")

\* handleDisconnect that also empties the transcript accumulators
handleDisconnectForgetting(s) ==
  LET a == [s EXCEPT !.isConnectedRef = FALSE, !.isConnectingRef = FALSE,
                     !.transcriptTextRef = [user |-> <<>>, model |-> <<>>]]
  IN  IF a.reconnectAttemptsRef < MaxReconnectAttempts
      THEN LET delay == Pow2(a.reconnectAttemptsRef)
               b == [a EXCEPT !.reconnectAttemptsRef = @ + 1]
               c == setStatus(b, "reconnecting")
               id == c.timerSeq + 1
           IN  [c EXCEPT !.timerSeq = id,
                         !.timers = @ \cup {[id |-> id, delay |-> delay]},
                         !.reconnectTimeoutRef = id]
      ELSE setStatus(a, "error")

handleDisconnect(s) ==
  LET a == [s EXCEPT !.isConnectedRef = FALSE, !.isConnectingRef = FALSE]
  IN  IF a.reconnectAttemptsRef < MaxReconnectAttempts
      THEN LET delay == Pow2(a.reconnectAttemptsRef)
               b == [a EXCEPT !.reconnectAttemptsRef = @ + 1]
               c == setStatus(b, "reconnecting")
               id == c.timerSeq + 1
           IN  [c EXCEPT !.timerSeq = id,
                         !.timers = @ \cup {[id |-> id, delay |-> delay]},
                         !.reconnectTimeoutRef = id]
      ELSE setStatus(a, "error")

\* ai.live.connect(...) and the assignment of sessionPromiseRef
liveConnect(s, rec) ==
  [s EXCEPT !.conns = Append(@, NewConn("connecting", rec))]

connectToLiveAPI(s, isReconnect) ==
  IF s.isConnectingRef THEN s
  ELSE
    LET a == [s EXCEPT !.isConnectingRef = TRUE]
        b == IF ~isReconnect
             THEN stopEverything(setStatus(a, "connecting"))
             ELSE LET r == cleanupAudio(setStatus(a, "reconnecting"))
                  IN  IF r.sessionRef # 0 THEN sessionClose(r, r.sessionRef) ELSE r
        c == [b EXCEPT !.audioContextsRef = TRUE]
    IN  IF ~c.streamRef
        THEN [c EXCEPT !.conns = Append(@, NewConn("gum", isReconnect))]
        ELSE liveConnect(c, isReconnect)

\* whether a call of connectToLiveAPI fits the bound max on the attempts
CanConnect(max) == isConnectingRef \/ Len(conns) < max

\* onopen without reconnectAttemptsRef.current = 0
onopenKeepingAttempts(s, c, resolves) ==
  LET a == [s EXCEPT !.isConnectingRef = FALSE,
                     !.conns[c].st = "open", !.conns[c].opened = TRUE]
      b == IF a.conns[c].rec
           THEN setStatus([a EXCEPT !.isConnectedRef = TRUE], "connected")
           ELSE setStatus(a, "ready_to_start")
      d == IF b.streamRef THEN [b EXCEPT !.handlers = @ \cup {c}] ELSE b
  IN  IF b.streamRef \/ resolves THEN [d EXCEPT !.sessionRef = c] ELSE d

\* callbacks.onopen of connection c; when no stream is held the handler throws at
\* createMediaStreamSource(streamRef.current!) and whether the library still
\* resolves the session promise is its affair: both outcomes (resolves) are modelled
onopen(s, c, resolves) ==
  LET a == [s EXCEPT !.reconnectAttemptsRef = 0, !.isConnectingRef = FALSE,
                     !.conns[c].st = "open", !.conns[c].opened = TRUE]
      b == IF a.conns[c].rec
           THEN setStatus([a EXCEPT !.isConnectedRef = TRUE], "connected")
           ELSE setStatus(a, "ready_to_start")
      d == IF b.streamRef THEN [b EXCEPT !.handlers = @ \cup {c}] ELSE b
  IN  IF b.streamRef \/ resolves THEN [d EXCEPT !.sessionRef = c] ELSE d

\* the part of activateAudioAndGreet after its awaits
activateResume(s) ==
  IF s.sessionRef # 0
  THEN LET a == setStatus([s EXCEPT !.isConnectedRef = TRUE], "connected")
       IN  [a EXCEPT !.greetings =
              Append(@, [conn |-> a.sessionRef, live |-> a.conns[a.sessionRef].st = "open"])]
  ELSE s

activateAudioAndGreet(s) ==
  IF s.audioContextsRef
  THEN [s EXCEPT !.activations = @ + 1]
  ELSE activateResume(s)

\* scriptProcessor.onaudioprocess of the handler installed for connection h
onaudioprocess(s, h) ==
  IF s.isConnectedRef
  THEN [s EXCEPT !.lastFrame =
          [status |-> s.status, ended |-> s.phase = "ended",
           sent |-> TRUE, live |-> s.conns[h].st = "open"]]
  ELSE s

----------------------------------------------------------------------------
(* Text.  A string is the sequence of its characters; the logographic     *)
(* characters [\u4e00-\u9fa5] are named by their reading.                  *)

Logographic == {"ni", "hao", "shi", "jie"}
Whitespace == {" "}
\* the characters of the strings of SpecText: two logographic ones, a space, a Latin letter
TextAlphabet == {"ni", "hao", " ", "H"}

\* the first index from i on that holds no whitespace (Len(text) + 1 if none)
RECURSIVE SkipSpace(_, _)
SkipSpace(text, i) ==
  IF i <= Len(text) /\ text[i] \in Whitespace THEN SkipSpace(text, i + 1) ELSE i

\* String.prototype.replace with the global pattern ([CJK])\s+([CJK]) and '$1$2':
\* the matches are found left to right and the search resumes after each match
RECURSIVE replaceFrom(_, _)
replaceFrom(text, i) ==
  IF i > Len(text) THEN <<>>
  ELSE LET j == SkipSpace(text, i + 1)
       IN  IF /\ text[i] \in Logographic
              /\ j > i + 1
              /\ j <= Len(text)
              /\ text[j] \in Logographic
           THEN <<text[i], text[j]>> \o replaceFrom(text, j + 1)
           ELSE <<text[i]>> \o replaceFrom(text, i + 1)

\* a normalizer that drops every whitespace character
formatAITextStripping(text) == SelectSeq(text, LAMBDA ch : ch \notin Whitespace)

formatAIText(text) == replaceFrom(text, 1)

\* String.prototype.trim
RECURSIVE trim(_)
trim(text) ==
  IF text = <<>> THEN <<>>
  ELSE IF Head(text) \in Whitespace THEN trim(Tail(text))
  ELSE IF text[Len(text)] \in Whitespace THEN trim(SubSeq(text, 1, Len(text) - 1))
  ELSE text

----------------------------------------------------------------------------
(* Tool dispatch.  A handler that can throw returns [st, ok]: the state it *)
(* leaves and whether it returned normally.                                *)

DrawActions == {"draw_rect", "draw_circle", "draw_line", "write_text"}

setCurrentMaterial(s, m, by) ==
  IF s.phase = "mounted" THEN [s EXCEPT !.currentMaterial = m, !.materialBy = by] ELSE s
setHasNewMaterial(s, v) ==
  IF s.phase = "mounted" THEN [s EXCEPT !.hasNewMaterial = v] ELSE s
setViewMode(s, v) ==
  IF s.phase = "mounted" THEN [s EXCEPT !.viewMode = v] ELSE s

\* Whiteboard.tutorDraw for the call id; params is "object" or "absent"
tutorDraw(s, id, action, params) ==
  IF action = "clear"
  THEN [st |-> [s EXCEPT !.drawLog = Append(@, [id |-> id, action |-> action])],
        ok |-> TRUE]
  ELSE IF params = "absent"
  THEN [st |-> s, ok |-> FALSE]    \* params.color: TypeError
  ELSE IF action \in DrawActions
  THEN [st |-> [s EXCEPT !.drawLog = Append(@, [id |-> id, action |-> action])],
        ok |-> TRUE]
  ELSE [st |-> s, ok |-> TRUE]

\* sessionPromise.then(s => s?.sendToolResponse({functionResponses: {id, ...}}))
sendToolResponse(s, c, id) == [s EXCEPT !.acks = Append(@, [id |-> id, conn |-> c])]

\* the branch fc.name === 'draw_on_whiteboard'; board: whiteboardRef.current is set
drawCall(s, c, id, fc, board) ==
  LET d == IF board THEN tutorDraw(s, id, fc.action, fc.params)
           ELSE [st |-> s, ok |-> TRUE]
  IN  IF d.ok THEN [st |-> sendToolResponse(d.st, c, id), ok |-> TRUE] ELSE d

\* the branch fc.name === 'show_learning_material'.  imageUrl is 0 for undefined,
\* -1 for the URL the call gives, k > 0 for the image generated for call k
showCall(s, c, id, fc) ==
  IF fc.action = "show"
  THEN IF fc.malformed
       THEN [st |-> s, ok |-> FALSE]   \* formatAIText(undefined): TypeError
       ELSE LET m == [title |-> formatAIText(fc.title),
                      content |-> formatAIText(fc.content),
                      imageUrl |-> fc.imageUrl,
                      isGenerating |-> fc.image_prompt]
                a == setViewMode(setHasNewMaterial(setCurrentMaterial(s, <<m>>, id), TRUE),
                                 "materials")
                b == IF fc.image_prompt THEN [a EXCEPT !.imageReqs = @ \cup {id}] ELSE a
            IN  [st |-> sendToolResponse(b, c, id), ok |-> TRUE]
  ELSE [st |-> sendToolResponse(s, c, id), ok |-> TRUE]

\* for (const fc of message.toolCall.functionCalls): calls[i] has id base + i
RECURSIVE runCalls(_, _, _, _, _, _)
runCalls(s, c, calls, i, base, board) ==
  IF i > Len(calls) THEN [st |-> s, ok |-> TRUE]
  ELSE LET fc == calls[i]
           r == IF fc.name = "draw_on_whiteboard" THEN drawCall(s, c, base + i, fc, board)
                ELSE IF fc.name = "show_learning_material" THEN showCall(s, c, base + i, fc)
                ELSE [st |-> s, ok |-> TRUE]
       IN  IF r.ok THEN runCalls(r.st, c, calls, i + 1, base, board) ELSE r

\* generateImageForMaterial whose catch calls setCurrentMaterial(null)
imageDoneDropping(s, id, outcome) ==
  LET a == [s EXCEPT !.imageReqs = @ \ {id}]
      prev == a.currentMaterial
  IN  IF outcome = "noimage" \/ prev = <<>> THEN a
      ELSE IF outcome = "image"
      THEN setCurrentMaterial(a, <<[prev[1] EXCEPT !.imageUrl = id, !.isGenerating = FALSE]>>,
                              a.materialBy)
      ELSE setCurrentMaterial(a, <<>>, a.materialBy)

\* generateImageForMaterial after its await; outcome is "image" (an inlineData
\* part came back), "noimage" (none did) or "failed" (the request threw)
imageDone(s, id, outcome) ==
  LET a == [s EXCEPT !.imageReqs = @ \ {id}]
      prev == a.currentMaterial
  IN  IF outcome = "noimage" \/ prev = <<>> THEN a
      ELSE IF outcome = "image"
      THEN setCurrentMaterial(a, <<[prev[1] EXCEPT !.imageUrl = id, !.isGenerating = FALSE]>>,
                              a.materialBy)
      ELSE setCurrentMaterial(a, <<[prev[1] EXCEPT !.isGenerating = FALSE]>>, a.materialBy)

----------------------------------------------------------------------------
(* Transcript *)

setTranscriptState(s, v) ==
  IF s.phase = "mounted" THEN [s EXCEPT !.transcriptState = v] ELSE s
setMessages(s, v) ==
  IF s.phase = "mounted" THEN [s EXCEPT !.messages = v] ELSE s

\* the outputTranscription / inputTranscription branches; an optional text is
\* <<>> when absent and <<text>> when present
transcription(s, m) ==
  IF m.out # <<>>
  THEN LET a == [s EXCEPT !.transcriptTextRef.model = @ \o m.out[1]]
       IN  setTranscriptState(a, [a.transcriptState EXCEPT
                                    !.model = formatAIText(a.transcriptTextRef.model)])
  ELSE IF m.inp # <<>>
  THEN LET a == [s EXCEPT !.transcriptTextRef.user = @ \o m.inp[1]]
       IN  setTranscriptState(a, [a.transcriptState EXCEPT !.user = a.transcriptTextRef.user])
  ELSE s

ChatMessage(role, text, at) ==
  [id |-> <<role, at>>, role |-> role, text |-> text, timestamp |-> at]

\* the turnComplete branch with setMessages([...newMsgs]) in place of
\* setMessages(prev => [...prev, ...newMsgs])
turnCompleteReplacing(s) ==
  LET uTxt == s.transcriptTextRef.user
      mTxt == formatAIText(s.transcriptTextRef.model)
      a == IF trim(uTxt) # <<>> \/ trim(mTxt) # <<>>
           THEN setMessages(s,
                     (IF trim(uTxt) # <<>> THEN <<ChatMessage("u", uTxt, s.now)>> ELSE <<>>)
                  \o (IF trim(mTxt) # <<>> THEN <<ChatMessage("m", mTxt, s.now)>> ELSE <<>>))
           ELSE s
      b == [a EXCEPT !.transcriptTextRef = [user |-> <<>>, model |-> <<>>]]
  IN  setTranscriptState(b, [user |-> <<>>, model |-> <<>>])

\* the turnComplete branch without the reset of transcriptTextRef
turnCompleteKeeping(s) ==
  LET uTxt == s.transcriptTextRef.user
      mTxt == formatAIText(s.transcriptTextRef.model)
  IN  IF trim(uTxt) # <<>> \/ trim(mTxt) # <<>>
      THEN setMessages(s, s.messages
             \o (IF trim(uTxt) # <<>> THEN <<ChatMessage("u", uTxt, s.now)>> ELSE <<>>)
             \o (IF trim(mTxt) # <<>> THEN <<ChatMessage("m", mTxt, s.now)>> ELSE <<>>))
      ELSE s

\* the serverContent.turnComplete branch
turnComplete(s) ==
  LET uTxt == s.transcriptTextRef.user
      mTxt == formatAIText(s.transcriptTextRef.model)
      a == IF trim(uTxt) # <<>> \/ trim(mTxt) # <<>>
           THEN setMessages(s, s.messages
                  \o (IF trim(uTxt) # <<>> THEN <<ChatMessage("u", uTxt, s.now)>> ELSE <<>>)
                  \o (IF trim(mTxt) # <<>> THEN <<ChatMessage("m", mTxt, s.now)>> ELSE <<>>))
           ELSE s
      b == [a EXCEPT !.transcriptTextRef = [user |-> <<>>, model |-> <<>>]]
  IN  setTranscriptState(b, [user |-> <<>>, model |-> <<>>])

Max(a, b) == IF a >= b THEN a ELSE b

\* the audio branch up to its await: base64Audio is the chunk of the message.
\* stale and no are history only: noteAudio fills them in where the order of
\* arrival is followed (SpecArrival)
audioPart(s, m) ==
  LET a == setIsSpeaking(s, TRUE)
  IN  IF a.audioContextsRef
      THEN [a EXCEPT !.nextStartTimeRef = Max(@, a.currentTime),
                     !.decodes = Append(@, [chunk |-> m.audio[1],
                                            interrupted |-> m.interrupted,
                                            stale |-> FALSE, no |-> 0])]
      ELSE a

\* the audio branch after its await, with nextStartTimeRef.current set to
\* currentTime + duration in place of += duration
enqueueFromClock(s, dur) ==
  LET k == Len(s.sources) + 1
  IN  [s EXCEPT !.sources = Append(@, [start |-> s.nextStartTimeRef,
                                       begin |-> Max(s.nextStartTimeRef, s.currentTime),
                                       dur |-> dur, st |-> "playing", no |-> 0]),
                !.nextStartTimeRef = s.currentTime + dur,
                !.activeSourcesRef = @ \cup {k}]

\* the audio branch after its await: the decoded buffer lasts dur.  A start
\* time that is already past makes the source play at once (begin)
enqueue(s, dur) ==
  LET k == Len(s.sources) + 1
  IN  [s EXCEPT !.sources = Append(@, [start |-> s.nextStartTimeRef,
                                       begin |-> Max(s.nextStartTimeRef, s.currentTime),
                                       dur |-> dur, st |-> "playing", no |-> 0]),
                !.nextStartTimeRef = @ + dur,
                !.activeSourcesRef = @ \cup {k}]

\* decodeAudioData settles for the suspended handler p: a chunk that cannot be
\* decoded rejects, and the exception leaves the handler; else the buffer is
\* scheduled and the handler goes on to its last statement
decodeSettled(s, p) ==
  IF ~p.chunk.ok THEN s
  ELSE LET a == enqueue(s, p.chunk.dur)
       IN  IF p.interrupted THEN cleanupAudio(a) ELSE a

\* source.onended of source k
onended(s, k) ==
  LET a == [s EXCEPT !.sources[k].st = "done", !.activeSourcesRef = @ \ {k}]
  IN  IF a.activeSourcesRef = {} THEN setIsSpeaking(a, FALSE) ELSE a

\* callbacks.onmessage of connection c.  An exception of the tool loop leaves the
\* async handler, so nothing after the loop runs for that message
onmessage(s, c, m) ==
  LET board == s.phase = "mounted" /\ s.viewMode = "canvas"
      r == runCalls([s EXCEPT !.received = @ \o m.calls], c, m.calls, 1,
                    Len(s.received), board)
  IN  IF ~r.ok THEN r.st
      ELSE LET a == transcription(r.st, m)
               b == IF m.turnComplete THEN turnComplete(a) ELSE a
               d == IF m.audio # <<>> THEN audioPart(b, m) ELSE b
           IN  IF Len(d.decodes) > Len(b.decodes) THEN d
               ELSE IF m.interrupted THEN cleanupAudio(d) ELSE d

----------------------------------------------------------------------------
(* Bookkeeping of what the environment produces (history only) *)

\* the fragments message m carries, added to the fragments h
Hear(h, m) ==
  [user |-> h.user \o (IF m.inp # <<>> THEN m.inp[1] ELSE <<>>),
   model |-> h.model \o (IF m.out # <<>> THEN m.out[1] ELSE <<>>)]

\* s is the state message m arrived in, t the state its handler left.  A turn
\* boundary is recorded with the fragments sent since the previous one and the
\* records the handler appended, as <<role, text>>; count is 2 from the second boundary in a row
\* with no fragment in between
noteMessage(s, t, m) ==
  LET bare == m.inp = <<>> /\ m.out = <<>>
  IN  IF m.turnComplete
      THEN [t EXCEPT !.heard = [user |-> <<>>, model |-> <<>>],
                     !.lastTurn =
                        [count |-> IF bare /\ s.lastTurn.count >= 1 THEN 2 ELSE 1,
                         heard |-> Hear(s.heard, m),
                         appended |->
                           [k \in 1 .. Len(t.messages) - Len(s.messages) |->
                              <<t.messages[Len(s.messages) + k].role,
                                t.messages[Len(s.messages) + k].text>>]]]
      ELSE IF bare THEN t
      ELSE [t EXCEPT !.heard = Hear(s.heard, m),
                     !.lastTurn = [count |-> 0,
                                   heard |-> [user |-> <<>>, model |-> <<>>],
                                   appended |-> <<>>]]


\* an open attempt failed (first = this is the first notification of that
\* failure); the failure of a connection that had opened is a drop, not a
\* failed open attempt, and breaks the run of consecutive failed attempts (-1)
noteFailure(s, c, first) ==
  IF ~first THEN s
  ELSE IF s.conns[c].opened \/ s.failedOpens < 0
       THEN [s EXCEPT !.failedOpens = -1]
       ELSE [s EXCEPT !.failedOpens = @ + 1]

noteOpened(s) == [s EXCEPT !.failedOpens = 0]

\* the arrival numbers of the chunks that are pending or have been scheduled
Nos(s) ==
  {s.sources[k].no : k \in 1 .. Len(s.sources)} \cup
  {s.decodes[k].no : k \in 1 .. Len(s.decodes)}

\* the arrival number of the next audio chunk
NextNo(s) == Cardinality(Nos(s)) + 1

\* the arrival numbers without the gaps that dropped chunks leave: only the
\* order of arrival is kept
Renumber(t) ==
  LET rank(n) == Cardinality({o \in Nos(t) : o <= n})
  IN  [t EXCEPT !.sources = [k \in 1 .. Len(@) |-> [@[k] EXCEPT !.no = rank(@)]],
                !.decodes = [k \in 1 .. Len(@) |-> [@[k] EXCEPT !.no = rank(@)]]]

\* cleanupAudio has run: the chunks whose decode is pending were received
\* before this interrupt
noteInterrupt(t) ==
  [t EXCEPT !.decodes = [k \in 1 .. Len(@) |-> [@[k] EXCEPT !.stale = TRUE]]]

\* s is the state message m arrived in, t the state its handler left: a chunk
\* that was handed to the decoder gets its arrival number, and an interruption
\* marker that was handled at once marks the pending chunks
noteAudio(s, t, m) ==
  IF Len(t.decodes) > Len(s.decodes)
  THEN [t EXCEPT !.decodes[Len(t.decodes)].no = NextNo(s)]
  ELSE IF m.interrupted THEN noteInterrupt(t) ELSE t

\* t is the state the continuation of the pending handler p left: the source
\* it started, if any, gets the arrival number of its chunk
noteSettled(s, t, p) ==
  LET a == IF Len(t.sources) > Len(s.sources)
           THEN [t EXCEPT !.sources[Len(t.sources)].no = p.no]
           ELSE t
  IN  Renumber(IF p.chunk.ok /\ p.interrupted THEN noteInterrupt(a) ELSE a)

----------------------------------------------------------------------------
(* Actions *)

InitSession ==
  /\ phase = "created"
  /\ status = "connecting"
  /\ isConnectingRef = FALSE
  /\ isConnectedRef = FALSE
  /\ reconnectAttemptsRef = 0
  /\ reconnectTimeoutRef = 0
  /\ timers = {}
  /\ timerSeq = 0
  /\ sessionRef = 0
  /\ streamRef = FALSE
  /\ audioContextsRef = FALSE
  /\ conns = <<>>
  /\ handlers = {}
  /\ activations = 0
  /\ clicks = 0
  /\ greetings = <<>>
  /\ lastFrame = [status |-> "connecting", ended |-> FALSE,
                  sent |-> FALSE, live |-> FALSE]
  /\ failedOpens = 0
  /\ viewMode = "materials"
  /\ currentMaterial = <<>>
  /\ materialBy = 0
  /\ hasNewMaterial = FALSE
  /\ imageReqs = {}
  /\ received = <<>>
  /\ acks = <<>>
  /\ drawLog = <<>>
  /\ transcriptTextRef = [user |-> <<>>, model |-> <<>>]
  /\ transcriptState = [user |-> <<>>, model |-> <<>>]
  /\ messages = <<>>
  /\ now = 0
  /\ heard = [user |-> <<>>, model |-> <<>>]
  /\ lastTurn = [count |-> 0, heard |-> [user |-> <<>>, model |-> <<>>], appended |-> <<>>]
  /\ currentTime = 0
  /\ nextStartTimeRef = 0
  /\ isSpeaking = FALSE
  /\ sources = <<>>
  /\ activeSourcesRef = {}
  /\ decodes = <<>>

Init ==
  /\ InitSession
  /\ textIn = <<>>
  /\ textOut = <<>>

\* the strings of at most MaxLen characters over TextAlphabet
Texts == UNION {[1 .. n -> TextAlphabet] : n \in 0 .. MaxLen}

\* any such string is about to be normalized
InitText ==
  /\ InitSession
  /\ textIn \in Texts
  /\ textOut = <<>>

\* the mount effect: connectToLiveAPI()
Mount ==
  /\ phase = "created"
  /\ Commit(connectToLiveAPI([Cur EXCEPT !.phase = "mounted"], FALSE))

\* onEnd -> App unmounts SessionUI -> the effect's cleanup, stopEverything
EndSession ==
  /\ phase = "mounted"
  /\ Commit(stopEverything([Cur EXCEPT !.phase = "ended"]))

\* await navigator.mediaDevices.getUserMedia resolves: streamRef is set and
\* connectToLiveAPI goes on to ai.live.connect
GetUserMediaResolve(c) ==
  /\ conns[c].st = "gum"
  /\ Commit([Cur EXCEPT !.streamRef = TRUE, !.conns[c].st = "connecting"])

\* it rejects: the catch of connectToLiveAPI calls handleDisconnect
GetUserMediaReject(c) ==
  /\ conns[c].st = "gum"
  /\ Commit(handleDisconnect(endConn(noteFailure(
              Cur, c, TRUE), c, "dead")))

OnOpen(c) ==
  /\ conns[c].st = "connecting"
  /\ \E resolves \in BOOLEAN : Commit(onopen(noteOpened(Cur), c, resolves))

\* callbacks.onerror: the socket reports an error; its close event follows
OnError(c) ==
  /\ conns[c].st \in {"connecting", "open", "closing"}
  /\ Commit(handleDisconnect(endConn(noteFailure(
              Cur, c, conns[c].st # "closing"), c, "failing")))

\* callbacks.onclose
OnClose(c) ==
  /\ conns[c].st \in {"connecting", "open", "closing", "failing"}
  /\ Commit(handleDisconnect(endConn(noteFailure(
              Cur, c, conns[c].st \in {"connecting", "open"}), c, "closed")))

\* the callback of window.setTimeout in handleDisconnect: connectToLiveAPI(true)
\* timers armed earlier with a delay that is no longer expire first
TimerFire(t, max) ==
  /\ t \in timers
  /\ \A u \in timers : ~(u.id < t.id /\ u.delay <= t.delay)
  /\ CanConnect(max)
  /\ Commit(connectToLiveAPI([Cur EXCEPT !.timers = @ \ {t}], TRUE))

\* the Reconnect Now button, rendered when status === 'error'
ManualRetry(max) ==
  /\ phase = "mounted"
  /\ status = "error"
  /\ CanConnect(max)
  /\ Commit(connectToLiveAPI(Cur, FALSE))

\* the START LESSON button, rendered when status === 'ready_to_start'
ClickStart ==
  /\ phase = "mounted"
  /\ status = "ready_to_start"
  /\ clicks < MaxClicks
  /\ Commit(activateAudioAndGreet([Cur EXCEPT !.clicks = @ + 1]))

\* the awaits of activateAudioAndGreet (resume of the audio contexts) complete
ActivateResume ==
  /\ activations > 0
  /\ Commit(activateResume([Cur EXCEPT !.activations = @ - 1]))

CaptureFrame(h) ==
  /\ h \in handlers
  /\ Commit(onaudioprocess(Cur, h))

\* a message m arrives on connection c, within the bounds of the model
Message(c, m) ==
  /\ conns[c].st \in {"open", "closing"}
  /\ Len(received) + Len(m.calls) <= MaxCalls
  /\ m.out # <<>> => Len(transcriptTextRef.model) + Len(m.out[1]) <= MaxText
  /\ (m.out = <<>> /\ m.inp # <<>>) =>
        Len(transcriptTextRef.user) + Len(m.inp[1]) <= MaxText
  /\ Len(onmessage(Cur, c, m).messages) <= MaxLog
  /\ m.audio # <<>> => Len(sources) + Len(decodes) < MaxSources
  /\ Commit(noteMessage(Cur, onmessage(Cur, c, m), m))

\* ai.models.generateContent of a pending generateImageForMaterial settles
ImageDone(id, outcome) ==
  /\ id \in imageReqs
  /\ Commit(imageDone(Cur, id, outcome))

\* the Materials / Whiteboard / Focus buttons of the header; the start overlay
\* covers them while status is 'connecting' or 'ready_to_start'
SetViewMode(v) ==
  /\ phase = "mounted"
  /\ status \notin {"connecting", "ready_to_start"}
  /\ viewMode # v
  /\ Commit(IF v = "materials"
            THEN setHasNewMaterial(setViewMode(Cur, v), FALSE)
            ELSE setViewMode(Cur, v))

\* await decodeAudioData of the k-th suspended onmessage call settles
DecodeSettled(k) ==
  /\ k \in 1 .. Len(decodes)
  /\ Commit(decodeSettled(
        [Cur EXCEPT !.decodes = SubSeq(@, 1, k - 1) \o SubSeq(@, k + 1, Len(@))],
        decodes[k]))

\* an audio event m arrives on connection c, and the arrival is recorded
ChunkMessage(c, m) ==
  /\ conns[c].st \in {"open", "closing"}
  /\ m.audio # <<>> => Len(sources) + Len(decodes) < MaxSources
  /\ Commit(noteAudio(Cur, onmessage(Cur, c, m), m))

\* await decodeAudioData of the k-th suspended onmessage call settles, and what
\* became of its chunk is recorded
ChunkDecoded(k) ==
  /\ k \in 1 .. Len(decodes)
  /\ Commit(noteSettled(Cur,
        decodeSettled(
          [Cur EXCEPT !.decodes = SubSeq(@, 1, k - 1) \o SubSeq(@, k + 1, Len(@))],
          decodes[k]),
        decodes[k]))

\* the ended event of source k: it played to its end, or it was stopped
Ended(k) ==
  /\ k \in 1 .. Len(sources)
  /\ \/ sources[k].st = "stopped"
     \/ sources[k].st = "playing" /\ currentTime >= sources[k].begin + sources[k].dur
  /\ Commit(onended(Cur, k))

\* the playback clock advances
AdvanceClock ==
  /\ currentTime < MaxTime
  /\ Commit([Cur EXCEPT !.currentTime = @ + 1])

\* formatAIText(textIn) is called
Normalize ==
  /\ textOut = <<>>
  /\ Commit([Cur EXCEPT !.textOut = <<formatAIText(textIn)>>])

\* time passes
Tick ==
  /\ now < MaxClock
  /\ Commit([Cur EXCEPT !.now = @ + 1])

----------------------------------------------------------------------------
(* The messages the backend sends *)

FunctionCall(name, action, params, malformed, imageUrl, prompt) ==
  [name |-> name, action |-> action, params |-> params,
   title |-> <<"ni", " ", "hao">>, content |-> <<"H", "i", " ", "ni">>,
   malformed |-> malformed, imageUrl |-> imageUrl, image_prompt |-> prompt]

DrawCalls ==
  {FunctionCall("draw_on_whiteboard", "clear", "object", FALSE, 0, FALSE)} \cup
  {FunctionCall("draw_on_whiteboard", a, p, FALSE, 0, FALSE) :
     a \in {"draw_line", "scribble"}, p \in {"object", "absent"}}

ShowCalls ==
  {FunctionCall("show_learning_material", "hide", "absent", FALSE, 0, FALSE),
   FunctionCall("show_learning_material", "show", "absent", TRUE, 0, FALSE),
   FunctionCall("show_learning_material", "show", "absent", FALSE, 0, FALSE),
   FunctionCall("show_learning_material", "show", "absent", FALSE, -1, FALSE),
   FunctionCall("show_learning_material", "show", "absent", FALSE, 0, TRUE)}

OtherCalls == {FunctionCall("zoom_whiteboard", "in", "object", FALSE, 0, FALSE)}

FunctionCalls == DrawCalls \cup ShowCalls \cup OtherCalls

LiveServerMessage(calls, out, inp, tc) ==
  [calls |-> calls, out |-> out, inp |-> inp, turnComplete |-> tc,
   audio |-> <<>>, interrupted |-> FALSE]

\* tool-call envelopes of one or two function calls
ToolMsgs ==
  {LiveServerMessage(<<f>>, <<>>, <<>>, FALSE) : f \in FunctionCalls} \cup
  {LiveServerMessage(<<f, g>>, <<>>, <<>>, FALSE) : f \in FunctionCalls, g \in FunctionCalls}

ModelFragments == {<<"ni">>, <<" ">>}
UserFragments == {<<"a">>}

\* the playback lengths of the audio chunks
Durations == {1, 2}

\* audio events: a chunk that decodes to a buffer of some duration or one that
\* cannot be decoded, or none, and the interruption marker
AudioMsgs ==
  {[LiveServerMessage(<<>>, <<>>, <<>>, FALSE) EXCEPT !.audio = a, !.interrupted = i] :
     a \in {<<>>} \cup {<<[dur |-> d, ok |-> TRUE]>> : d \in Durations}
              \cup {<<[dur |-> 0, ok |-> FALSE]>>},
     i \in BOOLEAN}
   \ {LiveServerMessage(<<>>, <<>>, <<>>, FALSE)}

\* transcription events: a fragment of either speaker, or none, and the turn boundary
TranscriptMsgs ==
  {LiveServerMessage(<<>>, out, inp, tc) :
     out \in {<<>>} \cup {<<f>> : f \in ModelFragments},
     inp \in {<<>>} \cup {<<f>> : f \in UserFragments},
     tc \in BOOLEAN}

\* one event of each kind: a drawing, a material, a fragment of either speaker,
\* a turn boundary, an audio chunk
EndMsgs ==
  {LiveServerMessage(<<FunctionCall("draw_on_whiteboard", "draw_line", "object", FALSE, 0, FALSE)>>,
                     <<>>, <<>>, FALSE),
   LiveServerMessage(<<FunctionCall("show_learning_material", "show", "absent", FALSE, 0, FALSE)>>,
                     <<>>, <<>>, FALSE),
   LiveServerMessage(<<>>, <<>>, << <<"a">> >>, FALSE),
   LiveServerMessage(<<>>, << <<"ni">> >>, <<>>, FALSE),
   LiveServerMessage(<<>>, <<>>, <<>>, TRUE),
   [LiveServerMessage(<<>>, <<>>, <<>>, FALSE) EXCEPT !.audio = <<[dur |-> 1, ok |-> TRUE]>>]}

Conns == 1 .. Len(conns)

\* the transport, the device and the timers
Transport(max) ==
  \/ \E c \in Conns : GetUserMediaResolve(c)
  \/ \E c \in Conns : GetUserMediaReject(c)
  \/ \E c \in Conns : OnOpen(c)
  \/ \E c \in Conns : OnError(c)
  \/ \E c \in Conns : OnClose(c)
  \/ \E t \in timers : TimerFire(t, max)

\* the user
User(max) ==
  \/ EndSession
  \/ ManualRetry(max)
  \/ ClickStart
  \/ ActivateResume

(* The connection lifecycle *)
Next == Mount \/ Transport(MaxConn) \/ User(MaxConn)

Spec == Init /\ [][Next]_vars

(* Reconnection alone: the transport fails and reopens, no user acts *)
NextBackoff == Mount \/ Transport(MaxBackoffConn)

SpecBackoff == Init /\ [][NextBackoff]_vars

(* The lifecycle up to and after a manual retry; the session is not ended *)
NextRetry ==
  \/ Mount \/ Transport(MaxRetryConn)
  \/ ManualRetry(MaxRetryConn) \/ ClickStart \/ ActivateResume

SpecRetry == Init /\ [][NextRetry]_vars

(* The lifecycle with the capture callbacks of the microphone *)
NextFrames ==
  \/ Mount \/ Transport(MaxConn)
  \/ EndSession \/ ClickStart \/ ActivateResume
  \/ \E h \in handlers : CaptureFrame(h)

SpecFrames == Init /\ [][NextFrames]_vars

(* Tool dispatch on the first connection *)
NextTools ==
  \/ Mount
  \/ \E c \in Conns : GetUserMediaResolve(c)
  \/ \E c \in Conns : OnOpen(c)
  \/ ClickStart
  \/ ActivateResume
  \/ EndSession
  \/ \E v \in {"canvas", "materials", "visualizer"} : SetViewMode(v)
  \/ \E c \in Conns : \E m \in ToolMsgs : Message(c, m)
  \/ \E id \in imageReqs : \E o \in {"image", "noimage", "failed"} : ImageDone(id, o)

SpecTools == Init /\ [][NextTools]_vars

(* The transcript while connections are lost and reopened *)
NextTranscript ==
  \/ Mount
  \/ \E c \in Conns : GetUserMediaResolve(c)
  \/ \E c \in Conns : OnOpen(c)
  \/ \E c \in Conns : OnClose(c)
  \/ \E t \in timers : TimerFire(t, MaxTranscriptConn)
  \/ \E c \in Conns : \E m \in TranscriptMsgs : Message(c, m)

SpecTranscript == Init /\ [][NextTranscript]_vars

(* Audio playback on the first connection *)
NextAudio ==
  \/ Mount
  \/ \E c \in Conns : GetUserMediaResolve(c)
  \/ \E c \in Conns : OnOpen(c)
  \/ \E c \in Conns : \E m \in AudioMsgs : Message(c, m)
  \/ \E k \in 1 .. Len(decodes) : DecodeSettled(k)
  \/ \E k \in 1 .. Len(sources) : Ended(k)
  \/ AdvanceClock

SpecAudio == Init /\ [][NextAudio]_vars

(* Audio playback with the order of arrival of the chunks recorded *)
NextArrival ==
  \/ Mount
  \/ \E c \in Conns : GetUserMediaResolve(c)
  \/ \E c \in Conns : OnOpen(c)
  \/ \E c \in Conns : \E m \in AudioMsgs : ChunkMessage(c, m)
  \/ \E k \in 1 .. Len(decodes) : ChunkDecoded(k)
  \/ \E k \in 1 .. Len(sources) : Ended(k)
  \/ AdvanceClock

SpecArrival == Init /\ [][NextArrival]_vars

(* Inbound events around the end of the session, on the first connection *)
NextEnded ==
  \/ Mount
  \/ \E c \in Conns : GetUserMediaResolve(c)
  \/ \E c \in Conns : OnOpen(c)
  \/ \E c \in Conns : OnClose(c)
  \/ EndSession
  \/ \E c \in Conns : \E m \in EndMsgs : Message(c, m)
  \/ \E k \in 1 .. Len(decodes) : DecodeSettled(k)
  \/ \E k \in 1 .. Len(sources) : Ended(k)

SpecEnded == Init /\ [][NextEnded]_vars

(* The normalizer on every string of the bound *)
NextText == Normalize

SpecText == InitText /\ [][NextText]_vars

----------------------------------------------------------------------------
(* Properties of the reconnection logic *)

\* the step delivers a failure to handleDisconnect: a rejection of getUserMedia,
\* an error event or a close event of some connection
FailureHandled ==
  \E c \in Conns :
    /\ conns'[c].st # conns[c].st
    /\ conns'[c].st \in {"dead", "failing", "closed"}

\* C1 (as stated): after N consecutive failed open attempts from attemptCount 0,
\* N in 1..4, the status is 'reconnecting', attemptCount is N and the timer the
\* N-th failure armed has delay 2^(N-1) seconds.
C1_BackoffAfterNFailures ==
  (phase = "mounted" /\ failedOpens \in 1 .. 4) =>
    /\ status = "reconnecting"
    /\ reconnectAttemptsRef = failedOpens
    /\ \A t \in timers : t.id = reconnectTimeoutRef => t.delay = Pow2(failedOpens - 1)

C3_SingleTimer == Cardinality(timers) <= 1

\* C7 (as stated): once the session has been ended no reconnect timer is pending
\* and no new connection attempt is started, whatever the closed transport
\* delivers afterwards.
C7_QuietAfterEnd ==
  [][phase' = "ended" =>
       /\ timers' = {}
       /\ phase = "ended" => Len(conns') = Len(conns)]_vars

\* C8 (as stated): after an explicit end the connection state is Disconnected and
\* stays so.  Read in the weakest way: the status is 'disconnected', or at least
\* the session counts as not connected and holds no transport.
C8_DisconnectedAfterEnd ==
  phase = "ended" => (status = "disconnected" \/ (~isConnectedRef /\ sessionRef = 0))

\* C9 (as stated): a frame whose capture callback runs while the status is not
\* 'connected' is never delivered to the backend.
C9_NoSendUnlessConnected ==
  (lastFrame.sent /\ lastFrame.live /\ ~lastFrame.ended) => lastFrame.status = "connected"

----------------------------------------------------------------------------
(* Properties of the tool dispatch *)

AcksOf(id) == {k \in 1 .. Len(acks) : acks[k].id = id}
DrawsOf(id) == {k \in 1 .. Len(drawLog) : drawLog[k].id = id}

\* C4 (as stated): every function call received in a tool-call envelope, whatever
\* its name and arguments and even when its effect throws, is acknowledged
\* exactly once.
C4_ExactlyOneAck ==
  \A id \in 1 .. Len(received) : Cardinality(AcksOf(id)) = 1

\* C5 (as stated): a draw_on_whiteboard call whose action is none of draw_rect,
\* draw_circle, draw_line, write_text, clear is acknowledged exactly once and
\* draws nothing.
C5_UnknownActionAcked ==
  \A id \in 1 .. Len(received) :
    (/\ received[id].name = "draw_on_whiteboard"
     /\ received[id].action \notin DrawActions \cup {"clear"}) =>
      (Cardinality(AcksOf(id)) = 1 /\ DrawsOf(id) = {})

\* C6 (as stated): when the image request issued for a material settles after a
\* later show call has replaced that material, the result is dropped and the
\* current material keeps its imageUrl and isGenerating.
C6_StaleImageDropped ==
  [][\A id \in imageReqs \ imageReqs' :
       materialBy # id => currentMaterial' = currentMaterial]_vars

----------------------------------------------------------------------------
(* Properties of the transcript *)

\* C10: the log of finalized messages is append-only: every step leaves the
\* records it holds unchanged and in place, also a step that handles a transport
\* failure or starts a reconnect.
C10_LogAppendOnly ==
  [][/\ Len(messages) <= Len(messages')
     /\ SubSeq(messages', 1, Len(messages)) = messages]_vars

\* records were logged on the first connection, it was lost, and the reconnect
\* has opened the second one
C10_Witness ==
  /\ messages # <<>>
  /\ Len(conns) = 2
  /\ conns[1].st = "closed"
  /\ conns[2].rec /\ conns[2].st = "open"
  /\ status = "connected"

\* C11: a turn boundary that finds both accumulators empty or blank appends no
\* record; in particular the second of two turn boundaries with no fragment in
\* between appends nothing.
C11_EmptyTurnNoop ==
  (/\ lastTurn.count >= 1
   /\ trim(lastTurn.heard.user) = <<>>
   /\ trim(formatAIText(lastTurn.heard.model)) = <<>>) => lastTurn.appended = <<>>

\* a turn was logged and two turn boundaries in a row followed a fragment
C11_Witness ==
  /\ lastTurn.count = 2
  /\ lastTurn.appended = <<>>
  /\ messages # <<>>

\* the records a turn boundary owes for the fragments h: <<role, text>>
TurnRecords(h) ==
  (IF trim(h.user) # <<>> THEN <<<<"u", h.user>>>> ELSE <<>>) \o
  (IF trim(formatAIText(h.model)) # <<>>
   THEN <<<<"m", formatAIText(h.model)>>>> ELSE <<>>)

\* C12 (as stated): the records a turn boundary appends are the user record, if
\* the user fragments are not blank, with their exact concatenation in arrival
\* order, then the model record, if the model fragments are not blank, with
\* their normalized concatenation.
C12_TurnRecords ==
  lastTurn.count >= 1 =>
    lastTurn.appended = TurnRecords(lastTurn.heard)

----------------------------------------------------------------------------
(* Properties of the normalizer *)

NonSpace(text) == SelectSeq(text, LAMBDA ch : ch \notin Whitespace)

\* the lengths of the whitespace runs of text: before its first non-whitespace
\* character, between consecutive ones, and after the last
RECURSIVE Gaps(_)
Gaps(text) ==
  IF text = <<>> THEN <<0>>
  ELSE LET g == Gaps(Tail(text))
       IN  IF Head(text) \in Whitespace THEN <<g[1] + 1>> \o Tail(g) ELSE <<0>> \o g

\* gap k of text lies strictly between two logographic characters
Inner(text, k) ==
  /\ 1 < k
  /\ k <= Len(NonSpace(text))
  /\ NonSpace(text)[k - 1] \in Logographic
  /\ NonSpace(text)[k] \in Logographic

\* C13 (as stated): the output of the normalizer holds no whitespace strictly
\* between two logographic characters, so that four logographic characters
\* separated by single spaces come out with every space removed.
C13_NoInnerWhitespace ==
  textOut # <<>> =>
    \A k \in 1 .. Len(NonSpace(textOut[1])) + 1 :
      Inner(textOut[1], k) => Gaps(textOut[1])[k] = 0

\* C14: the normalizer keeps the non-whitespace characters in order and every
\* whitespace run that is not strictly between two logographic characters (at
\* either end, or next to another character); the only change it makes is to
\* drop whole runs that are strictly between two logographic characters.
C14_OnlyInnerWhitespaceChanges ==
  textOut # <<>> =>
    /\ NonSpace(textOut[1]) = NonSpace(textIn)
    /\ \A k \in 1 .. Len(NonSpace(textIn)) + 1 :
         \/ Gaps(textOut[1])[k] = Gaps(textIn)[k]
         \/ Gaps(textOut[1])[k] = 0 /\ Inner(textIn, k)

\* 'H ni hao ' came out as 'H nihao ': the inner space went, the others stayed
C14_Witness ==
  /\ textIn = <<"H", " ", "ni", " ", "hao", " ">>
  /\ textOut = << <<"H", " ", "ni", "hao", " ">> >>

----------------------------------------------------------------------------
(* Properties of the audio playback *)

\* the total duration of the first n sources
RECURSIVE SumDur(_)
SumDur(n) == IF n = 0 THEN 0 ELSE SumDur(n - 1) + sources[n].dur

\* C15: with the playback clock at 0 and no interrupt, the buffers enqueued one
\* after another start at 0, d1, d1+d2, ... and nextStartTimeRef is the sum of
\* their durations.
C15_GaplessStarts ==
  (currentTime = 0 /\ \A k \in 1 .. Len(sources) : sources[k].st = "playing") =>
    /\ \A k \in 1 .. Len(sources) : sources[k].start = SumDur(k - 1)
    /\ nextStartTimeRef = SumDur(Len(sources))

\* three buffers of durations 1, 2, 1 were enqueued at clock 0
C15_Witness ==
  /\ currentTime = 0
  /\ Len(sources) = 3
  /\ \A k \in 1 .. 3 : sources[k].st = "playing"
  /\ <<sources[1].dur, sources[2].dur, sources[3].dur>> = <<1, 2, 1>>
  /\ <<sources[1].start, sources[2].start, sources[3].start>> = <<0, 1, 3>>
  /\ nextStartTimeRef = 4

\* the step runs cleanupAudio: an interruption marker is handled, at once or
\* after the decode of the chunk that came with it
CleanupStep ==
  \/ \E c \in Conns : \E m \in AudioMsgs :
       m.interrupted /\ m.audio = <<>> /\ Message(c, m)
  \/ \E k \in 1 .. Len(decodes) :
       decodes[k].interrupted /\ decodes[k].chunk.ok /\ DecodeSettled(k)

\* C16: right after cleanupAudio no source is left playing, the active set is
\* empty and nextStartTimeRef is 0, whatever the state it was called in.
C16_InterruptResets ==
  [][CleanupStep =>
       /\ activeSourcesRef' = {}
       /\ nextStartTimeRef' = 0
       /\ \A k \in 1 .. Len(sources') : sources'[k].st # "playing"]_vars

\* two buffers were scheduled and an interrupt stopped them
C16_Witness ==
  /\ phase = "mounted"
  /\ Len(sources) >= 2
  /\ sources[1].st = "stopped" /\ sources[2].st = "stopped"
  /\ activeSourcesRef = {}
  /\ nextStartTimeRef = 0
  /\ ~isSpeaking

\* the time source k plays: from begin for dur
Overlap(i, j) ==
  /\ sources[i].begin < sources[j].begin + sources[j].dur
  /\ sources[j].begin < sources[i].begin + sources[i].dur

\* C17 (as stated): no two buffers of the active set play at overlapping times,
\* for any interleaving of chunk arrivals, decode completions, clock advance
\* and interrupts.
C17_NoOverlap ==
  \A i \in activeSourcesRef : \A j \in activeSourcesRef : i # j => ~Overlap(i, j)

\* C18 (as stated, its first half): while a scheduled buffer has not reported
\* completion the tutor-is-speaking flag is true.
C18_SpeakingWhilePlaying ==
  (phase = "mounted" /\ activeSourcesRef # {}) => isSpeaking

\* C20 (as stated, its last part): a chunk that fails to decode is dropped
\* without leaving the speaking flag set over an empty active set.
C20_NoStuckSpeaking ==
  (phase = "mounted" /\ activeSourcesRef = {} /\ decodes = <<>>) => ~isSpeaking

----------------------------------------------------------------------------
(* Properties of the microphone acquisition *)

\* C19 (as stated): a rejection of getUserMedia is fatal: the step that handles
\* it does not set the status 'reconnecting' and arms no reconnect timer.
C19_NoRetryAfterDeviceError ==
  [][\A c \in Conns :
       (conns[c].st = "gum" /\ conns'[c].st = "dead" /\ phase = "mounted") =>
         (timers' = timers /\ status' # "reconnecting")]_vars

----------------------------------------------------------------------------
(* Properties of the learning material *)

\* C21: when the image request of the material on show fails, its isGenerating
\* becomes false and nothing else changes: title, content and imageUrl are kept,
\* no new request is issued, and the connection is left as it is.
C21_ImageFailureClearsFlag ==
  [][\A id \in imageReqs :
       (phase = "mounted" /\ materialBy = id /\ ImageDone(id, "failed")) =>
         /\ currentMaterial' = <<[currentMaterial[1] EXCEPT !.isGenerating = FALSE]>>
         /\ imageReqs' = imageReqs \ {id}
         /\ UNCHANGED <<status, conns, sessionRef, isConnectedRef, isConnectingRef,
                        reconnectAttemptsRef, timers, viewMode, hasNewMaterial,
                        materialBy, acks, received, drawLog>>]_vars

\* the only show call asked for an image, its request failed, and the material
\* is on show with its text and without the in-flight flag
C21_Witness ==
  /\ phase = "mounted"
  /\ Len(received) = 1
  /\ received[1].image_prompt
  /\ materialBy = 1
  /\ imageReqs = {}
  /\ currentMaterial # <<>>
  /\ currentMaterial[1].title = formatAIText(received[1].title)
  /\ ~currentMaterial[1].isGenerating
  /\ currentMaterial[1].imageUrl = 0

----------------------------------------------------------------------------
(* Properties of the connection lifecycle *)

\* C22 (as stated): a manual retry in the status 'error' sets attemptCount to 0,
\* sets the status 'connecting' and starts a fresh open attempt, so that a
\* failure of that attempt is answered with a backoff timer.
C22_RetryResetsAttempts ==
  [][ManualRetry(MaxConn) =>
       /\ status' = "connecting"
       /\ Len(conns') = Len(conns) + 1
       /\ reconnectAttemptsRef' = 0]_vars

----------------------------------------------------------------------------
(* Properties of the teardown *)

\* a socket that is being opened or is open
Live(s) == {c \in 1 .. Len(s.conns) : s.conns[c].st \in {"connecting", "open"}}

\* C23 (as stated): stopEverything run a second time leaves the state as the
\* first run left it, and that state has no active buffer, no pending timer, no
\* transport and no capture stream, whatever the state of the first run.
C23_TeardownIdempotent ==
  LET t == stopEverything(Cur)
  IN  /\ stopEverything(t) = t
      /\ t.activeSourcesRef = {}
      /\ t.timers = {}
      /\ Live(t) = {}
      /\ ~t.streamRef

\* the place of a step in the stated order (a) capture, (b) interrupt, (c) timer,
\* (d) transport
StatedRank(step) ==
  CASE step = "capture" -> 1
    [] step = "interrupt" -> 2
    [] step = "timer" -> 3
    [] step = "transport" -> 4

\* C24 (as stated): the steps of a teardown come in the order capture,
\* interrupt, timer, transport.
C24_TeardownOrder ==
  LET steps == stopEverythingSteps(Cur)
  IN  \A i \in 1 .. Len(steps) : \A j \in 1 .. Len(steps) :
        i < j => StatedRank(steps[i]) < StatedRank(steps[j])

----------------------------------------------------------------------------
(* Properties of the open of a connection *)

\* the step delivers onopen to connection c
Opens(c) == conns[c].st = "connecting" /\ conns'[c].st = "open"

\* C25: every open of a connection, first attempt or reconnect, leaves
\* attemptCount at 0, and a failure handled while attemptCount is 0 arms a timer
\* of 1 second.
C25_OpenResetsAttempts ==
  [][/\ \A c \in Conns : Opens(c) => reconnectAttemptsRef' = 0
     /\ (reconnectAttemptsRef = 0 /\ FailureHandled) =>
          /\ reconnectAttemptsRef' = 1
          /\ \E t \in timers' \ timers : t.delay = 1 /\ timers' = timers \cup {t}]_vars

\* the first attempt failed, the reconnect opened with attemptCount back at 0,
\* and its failure armed a 1-second timer
C25_Witness ==
  /\ Len(conns) = 2
  /\ conns[1].st = "closed"
  /\ conns[2].rec /\ conns[2].opened /\ conns[2].st = "failing"
  /\ reconnectAttemptsRef = 1
  /\ \E t \in timers : t.delay = 1 /\ t.id = reconnectTimeoutRef


\* C26 (as stated): the open of a first attempt sets the status 'ready_to_start'
\* and the open of a reconnect attempt sets 'connected'; from 'ready_to_start'
\* the status becomes 'connected' only by the user's activation.
C26_ReadyUntilActivated ==
  [][/\ \A c \in Conns :
          (phase = "mounted" /\ Opens(c)) =>
            status' = IF conns[c].rec THEN "connected" ELSE "ready_to_start"
     /\ (status = "ready_to_start" /\ status' = "connected") =>
          Len(greetings') = Len(greetings) + 1]_vars


\* C27 (as stated): a greeting is sent only by the step that takes the status
\* from 'ready_to_start' to 'connected', one greeting per such step, and over a
\* connection that is open.
C27_GreetingOnActivation ==
  [][greetings' # greetings =>
       /\ status = "ready_to_start" /\ status' = "connected"
       /\ Len(greetings') = Len(greetings) + 1
       /\ greetings'[Len(greetings')].live]_vars

\* C28 (as stated): no reconnect timer is pending while the status is 'error',
\* and the status leaves 'error' only by a manual retry or the end of the session.
C28_ErroredIsTerminal ==
  [][/\ (phase = "mounted" /\ status = "error") => timers = {}
     /\ (status = "error" /\ status' # "error") =>
          (ManualRetry(MaxConn) \/ EndSession)]_vars

----------------------------------------------------------------------------
(* Properties of the audio playback across interrupts and decodes *)

\* C29 (as stated): a chunk whose decode was pending when cleanupAudio ran is
\* not started when its decode completes.
C29_NoStaleAudio ==
  [][\A k \in 1 .. Len(decodes) :
       (decodes[k].stale /\ ChunkDecoded(k)) => Len(sources') = Len(sources)]_vars

\* C30 (as stated): of two buffers of the active set, the one whose chunk
\* arrived first has the start time that is not later, whatever the order in
\* which the decodes completed.
C30_ArrivalOrder ==
  \A i \in activeSourcesRef : \A j \in activeSourcesRef :
    sources[i].no < sources[j].no => sources[i].start <= sources[j].start

----------------------------------------------------------------------------
(* Properties of the ended session *)

\* C31 (as stated): once the session has been ended no step schedules a buffer
\* or adds one to the active set, changes a transcript accumulator or the log,
\* draws, or changes the learning material.
C31_NoEffectAfterEnd ==
  [][phase = "ended" =>
       /\ Len(sources') = Len(sources)
       /\ activeSourcesRef' \subseteq activeSourcesRef
       /\ transcriptTextRef' = transcriptTextRef
       /\ messages' = messages
       /\ drawLog' = drawLog
       /\ currentMaterial' = currentMaterial]_vars

----------------------------------------------------------------------------
(* Properties of the transcript across reconnects *)

C33_NoFragmentLost ==
  /\ transcriptTextRef.user = heard.user
  /\ transcriptTextRef.model = heard.model


(* The log of transcript records as time passes, on the first connection *)
NextLog ==
  \/ Mount
  \/ \E c \in Conns : GetUserMediaResolve(c)
  \/ \E c \in Conns : OnOpen(c)
  \/ \E c \in Conns : \E m \in TranscriptMsgs : Message(c, m)
  \/ Tick

SpecLog == Init /\ [][NextLog]_vars

\* C34 (as stated): the ids of the records of one speaker increase along the
\* log, so no two records of a speaker have the same id, also when two turn
\* boundaries are handled at the same clock value.
C34_IdsIncrease ==
  \A i, j \in 1 .. Len(messages) :
    (i < j /\ messages[i].role = messages[j].role)
      => messages[i].id[2] < messages[j].id[2]


----------------------------------------------------------------------------
(* Properties of the capture callbacks across reconnects *)

\* C35 (as stated): a captured frame is delivered to the backend only after the
\* user has pressed the start button, on every path.
C35_NoFrameBeforeActivation ==
  (lastFrame.sent /\ lastFrame.live) => clicks > 0


\* the open attempts in flight: waiting for the microphone or for the socket
Attempts == {c \in Conns : conns[c].st \in {"gum", "connecting"}}

\* C36 (as stated): at most one open attempt is in flight and at most one
\* transport is open, in every reachable state.
C36_SingleConnection ==
  /\ Cardinality(Attempts) <= 1
  /\ Cardinality({c \in Conns : conns[c].st = "open"}) <= 1


\* the capture callbacks that send the frame they are given: the flag is one
\* for all of them, and each sends on the connection it was installed for
Senders == {h \in handlers : isConnectedRef /\ conns[h].st = "open"}

\* C37 (as stated): a captured frame is sent at most once, and only on the
\* connection that is live now: at most one capture callback sends, and it is
\* the one of the current session.
C37_FrameSentOnce ==
  /\ Cardinality(Senders) <= 1
  /\ Senders \subseteq {sessionRef}


----------------------------------------------------------------------------
(* Properties of the drawing surface and of the image request *)

\* C38 (as stated): every draw_on_whiteboard call with a recognized action and
\* well-formed parameters that arrived during the session has drawn exactly
\* once, whichever view was displayed when it arrived.
C38_DrawInEveryView ==
  phase = "mounted" =>
    \A id \in 1 .. Len(received) :
      (/\ received[id].name = "draw_on_whiteboard"
       /\ received[id].action \in DrawActions \cup {"clear"}
       /\ received[id].params = "object") =>
        Cardinality(DrawsOf(id)) = 1


\* C39 (as stated): the in-flight flag of the material on show is true only
\* while the image request issued for it is pending: once that request has
\* completed, with an image, without an image part or with a failure, the flag
\* is false.
C39_FlagClearedOnCompletion ==
  (phase = "mounted" /\ currentMaterial # <<>> /\ currentMaterial[1].isGenerating)
    => materialBy \in imageReqs


----------------------------------------------------------------------------
(* Properties of the connected flag *)

\* C40 (as stated): while the session has not been ended, isConnectedRef is
\* true exactly when the status is 'connected'.
C40_FlagMatchesStatus ==
  phase = "mounted" => (isConnectedRef <=> status = "connected")

====
